---- MODULE Spec2Model ----
(***************************************************************************)
(* The capture pipeline and facade of package input (inputImpl): Start,    *)
(* Stop, Poll, Next and captureLoop over the Backend, with the goroutines' *)
(* interleavings at the granularity of their synchronisation operations    *)
(* (mutex, sync.Once, WaitGroup, channel send/receive/close).              *)
(***************************************************************************)
EXTENDS Integers, Sequences, FiniteSets, TLC

\* ------------------------------------------------------------- bounds
MaxStopCalls == 2       \* Stop() calls in one behaviour
MaxStartCalls == 2      \* Start() calls in one behaviour
MaxEvents == 3          \* events the device delivers in one behaviour
QueueCap == 2           \* capacity of the events channel, 100 in the source
MaxBackendCalls == 4    \* Init() and Restore() calls made on a backend directly
maxConsecutiveErrors == 3   \* read failures in a row that end captureLoop, 10 in the source

\* ------------------------------------------------- program constants
KeyUnknown == 0

Stoppers == {"s1", "s2"}    \* goroutines that call Stop()
Owner == {"s1"}             \* the goroutine that owns the Input in a single session
Consumers == {"c1", "c2"}   \* goroutines that call Poll() and Next()
Loops == 1..MaxStartCalls   \* captureLoop goroutines, in the order Start spawns them
GameLoop == {"c1"}          \* the consumer of a single-threaded application
Keys == {1}                 \* keys the device reports

\* readBufferPool.New: a buffer nobody holds and no read has written to
PoolNew == [held |-> FALSE, bytes |-> <<>>, n |-> 0]

ZeroEvent == [id |-> 0, key |-> KeyUnknown, pressed |-> FALSE]
NilEvent == [id |-> -1, key |-> KeyUnknown, pressed |-> FALSE]

VARIABLES
    \* inputImpl
    started, stopping, stopOnce, doneClosed, events, eventsClosed, wg, mu, keyState,
    \* unixBackend and the terminal it drives
    termMode, originalState, initialized,
    \* captureLoop goroutines
    loopPc, consecutiveErrors, loopEvent,
    \* callers
    stopPc, conPc, conRes,
    \* history
    startLog, stopCalls, stopOnStarted, restoreCount, restoreFailed, panicked, produced,
    delivered, preStopReads,
    \* unixBackend.ReadEvent and SequenceParser.Parse on a stream of device reads
    device, pendingBuf, rePc, readLog, buffer, parsed, whole,
    \* history of the calls made on the backend directly
    backendCalls,
    \* the buffer of readBufferPool: whether a ReadEvent call holds it, the bytes in it,
    \* and the count its last read returned
    buf

implVars == <<started, stopping, stopOnce, doneClosed, events, eventsClosed, wg, mu, keyState>>
backendVars == <<termMode, originalState, initialized>>
loopVars == <<loopPc, consecutiveErrors, loopEvent>>
callerVars == <<stopPc, conPc, conRes>>
histVars == <<startLog, stopCalls, stopOnStarted, restoreCount, restoreFailed, panicked, produced>>
flowVars == <<delivered, preStopReads>>
readVars == <<device, pendingBuf, rePc, readLog, buffer, parsed, whole, backendCalls, buf>>
vars == <<implVars, backendVars, loopVars, callerVars, histVars, flowVars, readVars>>

\* ------------------------------------------------------------ helpers
AliveLoops == {l \in Loops : loopPc[l] \in {"check", "read", "backoff", "push"}}
Spawned == Cardinality({l \in Loops : loopPc[l] # "none"})
StartsOK == Cardinality({i \in 1..Len(startLog) : startLog[i] = "ok"})

\* New(): impl.go 27-34, on a terminal in its original mode
New ==
    /\ started = FALSE /\ stopping = FALSE /\ stopOnce = "fresh"
    /\ doneClosed = FALSE /\ events = <<>> /\ eventsClosed = FALSE
    /\ wg = 0 /\ mu = "free"
    /\ keyState = [k \in {KeyUnknown} \cup Keys |-> FALSE]
    /\ termMode = "orig" /\ originalState = "nil" /\ initialized = FALSE
    /\ loopPc = [l \in Loops |-> "none"]
    /\ consecutiveErrors = [l \in Loops |-> 0]
    /\ loopEvent = [l \in Loops |-> ZeroEvent]
    /\ stopPc = [s \in Stoppers |-> "idle"]
    /\ conPc = [c \in Consumers |-> "idle"]
    /\ conRes = [c \in Consumers |-> [ev |-> NilEvent, ok |-> FALSE]]
    /\ startLog = <<>> /\ stopCalls = 0
    /\ stopOnStarted = [s \in Stoppers |-> FALSE]
    /\ restoreCount = 0 /\ restoreFailed = FALSE /\ panicked = FALSE /\ produced = 0
    /\ delivered = <<>> /\ preStopReads = {}

\* a backend with an empty accumulator; the bytes of the device are not looked at
Init ==
    /\ New
    /\ device = <<>> /\ pendingBuf = <<>> /\ rePc = "idle" /\ readLog = <<>>
    /\ buffer = <<>> /\ parsed = <<>> /\ whole = <<>> /\ backendCalls = <<>>
    /\ buf = PoolNew

\* ------------------------------------------------------------ backend
InitOutcomes == {"ok", "getfail", "setfail"}

\* unixBackend.Init: what it returns, given what the two ioctls do
InitReturns(io) == IF initialized \/ io = "ok" THEN "ok" ELSE "initerr"

BackendInit_NotIdempotent(io) ==
    IF io = "getfail"
    THEN UNCHANGED backendVars
    ELSE /\ originalState' = termMode
         /\ IF io = "ok"
            THEN termMode' = "raw" /\ initialized' = TRUE
            ELSE UNCHANGED <<termMode, initialized>>

\* unixBackend.Init: its effect on the backend and the terminal
BackendInit(io) ==
    IF initialized \/ io = "getfail"
    THEN UNCHANGED backendVars
    ELSE /\ originalState' = termMode
         /\ IF io = "ok"
            THEN termMode' = "raw" /\ initialized' = TRUE
            ELSE UNCHANGED <<termMode, initialized>>

\* unixBackend.Restore: ioOk is whether the ioctl succeeds
BackendRestore(ioOk) ==
    /\ restoreCount' = restoreCount + 1
    /\ UNCHANGED <<originalState, initialized>>
    /\ IF originalState = "nil"
       THEN UNCHANGED <<termMode, restoreFailed>>
       ELSE IF ioOk
            THEN termMode' = originalState /\ UNCHANGED restoreFailed
            ELSE restoreFailed' = TRUE /\ UNCHANGED termMode

\* Init() called on the backend itself, as the backend's tests do
BackendCallInit(io) ==
    /\ Len(backendCalls) < MaxBackendCalls
    /\ BackendInit(io)
    /\ backendCalls' = Append(backendCalls, [op |-> "Init", ret |-> InitReturns(io)])
    /\ UNCHANGED <<implVars, loopVars, callerVars, histVars, flowVars,
                   device, pendingBuf, rePc, readLog, buffer, parsed, whole, buf>>

\* Restore() called on the backend itself
BackendCallRestore(ioOk) ==
    /\ Len(backendCalls) < MaxBackendCalls
    /\ BackendRestore(ioOk)
    /\ backendCalls' = Append(backendCalls,
           [op |-> "Restore", ret |-> IF originalState = "nil" \/ ioOk THEN "ok" ELSE "err"])
    /\ UNCHANGED <<implVars, loopVars, callerVars, flowVars, startLog, stopCalls,
                   stopOnStarted, panicked, produced,
                   device, pendingBuf, rePc, readLog, buffer, parsed, whole, buf>>

\* -------------------------------------------------------------- Start
\* a Start that lacks the started test
AlreadyStarted_NoGuard == FALSE

\* Start's early return on in.started
AlreadyStarted == started

\* a Start that goes on whatever Init() returned
InitSucceeded_ErrorIgnored(io) == TRUE

\* Start's test of backend.Init()'s error: only a nil error lets it go on to spawn
InitSucceeded(io) == InitReturns(io) = "ok"

\* inputImpl.Start, atomic under in.mu
Start(io) ==
    /\ Len(startLog) < MaxStartCalls
    /\ mu = "free"
    /\ (AlreadyStarted \/ initialized) => io = "ok"
    /\ IF AlreadyStarted
       THEN /\ startLog' = Append(startLog, "already")
            /\ UNCHANGED <<started, wg, backendVars, loopVars>>
       ELSE /\ BackendInit(io)
            /\ startLog' = Append(startLog, InitReturns(io))
            /\ IF InitSucceeded(io)
               THEN /\ wg' = wg + 1
                    /\ loopPc' = [loopPc EXCEPT ![Spawned + 1] = "check"]
                    /\ consecutiveErrors' = [consecutiveErrors EXCEPT ![Spawned + 1] = 0]
                    /\ started' = TRUE
                    /\ UNCHANGED loopEvent
               ELSE UNCHANGED <<started, wg, loopVars>>
    /\ UNCHANGED <<readVars, flowVars, stopping, stopOnce, doneClosed, events, eventsClosed, mu, keyState,
                   callerVars, stopCalls, stopOnStarted, restoreCount, restoreFailed,
                   panicked, produced>>

\* -------------------------------------------------------- captureLoop
\* defer in.wg.Done() and return
LoopExit(l, how) ==
    /\ loopPc' = [loopPc EXCEPT ![l] = how]
    /\ wg' = wg - 1

LoopCheck_NoDoneCheck(l) ==
    /\ loopPc[l] = "check"
    /\ loopPc' = [loopPc EXCEPT ![l] = "read"] /\ UNCHANGED wg
    /\ UNCHANGED <<readVars, flowVars, started, stopping, stopOnce, doneClosed, events, eventsClosed, mu,
                   keyState, backendVars, consecutiveErrors, loopEvent, callerVars,
                   histVars>>

\* the non-blocking shutdown check at the top of the loop, then ReadEvent is entered
LoopCheck(l) ==
    /\ loopPc[l] = "check"
    /\ IF doneClosed
       THEN LoopExit(l, "exitDone")
       ELSE loopPc' = [loopPc EXCEPT ![l] = "read"] /\ UNCHANGED wg
    /\ UNCHANGED <<readVars, flowVars, started, stopping, stopOnce, doneClosed, events, eventsClosed, mu,
                   keyState, backendVars, consecutiveErrors, loopEvent, callerVars,
                   histVars>>

ReadEventOk_NoReset(l, k) ==
    /\ loopPc[l] = "read"
    /\ produced < MaxEvents
    /\ produced' = produced + 1
    /\ loopEvent' = [loopEvent EXCEPT ![l] = [id |-> produced + 1, key |-> k, pressed |-> TRUE]]
    /\ loopPc' = [loopPc EXCEPT ![l] = "push"]
    /\ preStopReads' = IF stopCalls = 0 THEN preStopReads \cup {produced + 1} ELSE preStopReads
    /\ UNCHANGED <<readVars, delivered, implVars, backendVars, callerVars, startLog, stopCalls, stopOnStarted,
                   restoreCount, restoreFailed, panicked, consecutiveErrors>>

\* backend.ReadEvent returns an Event
ReadEventOk(l, k) ==
    /\ loopPc[l] = "read"
    /\ produced < MaxEvents
    /\ produced' = produced + 1
    /\ loopEvent' = [loopEvent EXCEPT ![l] = [id |-> produced + 1, key |-> k, pressed |-> TRUE]]
    /\ consecutiveErrors' = [consecutiveErrors EXCEPT ![l] = 0]
    /\ loopPc' = [loopPc EXCEPT ![l] = "push"]
    /\ preStopReads' = IF stopCalls = 0 THEN preStopReads \cup {produced + 1} ELSE preStopReads
    /\ UNCHANGED <<readVars, delivered, implVars, backendVars, callerVars, startLog, stopCalls, stopOnStarted,
                   restoreCount, restoreFailed, panicked>>

\* backend.ReadEvent returns io.EOF
ReadEventEOF(l) ==
    /\ loopPc[l] = "read"
    /\ LoopExit(l, "exitEOF")
    /\ UNCHANGED <<readVars, flowVars, started, stopping, stopOnce, doneClosed, events, eventsClosed, mu,
                   keyState, backendVars, consecutiveErrors, loopEvent, callerVars,
                   histVars>>

\* backend.ReadEvent returns another error
ReadEventErr(l) ==
    /\ loopPc[l] = "read"
    /\ consecutiveErrors' = [consecutiveErrors EXCEPT ![l] = @ + 1]
    /\ IF consecutiveErrors[l] + 1 >= maxConsecutiveErrors
       THEN LoopExit(l, "exitErr")
       ELSE loopPc' = [loopPc EXCEPT ![l] = "backoff"] /\ UNCHANGED wg
    /\ UNCHANGED <<readVars, flowVars, started, stopping, stopOnce, doneClosed, events, eventsClosed, mu,
                   keyState, backendVars, loopEvent, callerVars, histVars>>

\* the back-off select: time.After(errorBackoff) fires
LoopBackoffTimer(l) ==
    /\ loopPc[l] = "backoff"
    /\ loopPc' = [loopPc EXCEPT ![l] = "check"]
    /\ UNCHANGED <<readVars, flowVars, implVars, backendVars, consecutiveErrors, loopEvent, callerVars,
                   histVars>>

\* the back-off select: <-in.done
LoopBackoffDone(l) ==
    /\ loopPc[l] = "backoff"
    /\ doneClosed
    /\ LoopExit(l, "exitDone")
    /\ UNCHANGED <<readVars, flowVars, started, stopping, stopOnce, doneClosed, events, eventsClosed, mu,
                   keyState, backendVars, consecutiveErrors, loopEvent, callerVars,
                   histVars>>

\* the send select: in.events <- event (a send on a closed channel panics)
Enqueue_Front(q, e) == <<e>> \o q

\* in.events <- event: a buffered channel appends at the tail
Enqueue(q, e) == Append(q, e)

Dequeue_Peek(q) == q

\* <-in.events: a receive removes the head of the buffer
Dequeue(q) == Tail(q)

LoopPushSend_DropWhenFull(l) ==
    /\ loopPc[l] = "push"
    /\ IF eventsClosed
       THEN /\ panicked' = TRUE
            /\ loopPc' = [loopPc EXCEPT ![l] = "panic"]
            /\ UNCHANGED events
       ELSE /\ events' = IF Len(events) < QueueCap THEN Enqueue(events, loopEvent[l]) ELSE events
            /\ loopPc' = [loopPc EXCEPT ![l] = "check"]
            /\ UNCHANGED panicked
    /\ UNCHANGED <<readVars, flowVars, started, stopping, stopOnce, doneClosed, eventsClosed, wg, mu, keyState,
                   backendVars, consecutiveErrors, loopEvent, callerVars, startLog,
                   stopCalls, stopOnStarted, restoreCount, restoreFailed, produced>>

\* the send select: in.events <- event (blocks while the buffer is full)
LoopPushSend(l) ==
    /\ loopPc[l] = "push"
    /\ IF eventsClosed
       THEN /\ panicked' = TRUE
            /\ loopPc' = [loopPc EXCEPT ![l] = "panic"]
            /\ UNCHANGED events
       ELSE /\ Len(events) < QueueCap
            /\ events' = Enqueue(events, loopEvent[l])
            /\ loopPc' = [loopPc EXCEPT ![l] = "check"]
            /\ UNCHANGED panicked
    /\ UNCHANGED <<readVars, flowVars, started, stopping, stopOnce, doneClosed, eventsClosed, wg, mu, keyState,
                   backendVars, consecutiveErrors, loopEvent, callerVars, startLog,
                   stopCalls, stopOnStarted, restoreCount, restoreFailed, produced>>

\* the send select: <-in.done
LoopPushDone(l) ==
    /\ loopPc[l] = "push"
    /\ doneClosed
    /\ LoopExit(l, "exitDone")
    /\ UNCHANGED <<readVars, flowVars, started, stopping, stopOnce, doneClosed, events, eventsClosed, mu,
                   keyState, backendVars, consecutiveErrors, loopEvent, callerVars,
                   histVars>>

\* --------------------------------------------------------------- Stop
\* a goroutine calls Stop()
StopCall(s) ==
    /\ stopPc[s] \in {"idle", "returned"}
    /\ stopCalls < MaxStopCalls
    /\ stopCalls' = stopCalls + 1
    /\ stopOnStarted' = [stopOnStarted EXCEPT ![s] = started]
    /\ stopPc' = [stopPc EXCEPT ![s] = "once"]
    /\ UNCHANGED <<readVars, flowVars, implVars, backendVars, loopVars, conPc, conRes, startLog, restoreCount,
                   restoreFailed, panicked, produced>>

\* stopOnce.Do after the function has completed once: returns at once
StopOnceSpent(s) ==
    /\ stopPc[s] = "once"
    /\ stopOnce = "done"
    /\ stopPc' = [stopPc EXCEPT ![s] = "returned"]
    /\ UNCHANGED <<readVars, flowVars, implVars, backendVars, loopVars, conPc, conRes, histVars>>

\* stopOnce.Do runs the function: lock, test started, set stopping, unlock
StopBegin(s) ==
    /\ stopPc[s] = "once"
    /\ stopOnce = "fresh"
    /\ mu = "free"
    /\ IF ~started
       THEN /\ stopOnce' = "done"
            /\ stopPc' = [stopPc EXCEPT ![s] = "returned"]
            /\ UNCHANGED stopping
       ELSE /\ stopOnce' = "running"
            /\ stopping' = TRUE
            /\ stopPc' = [stopPc EXCEPT ![s] = "signal"]
    /\ UNCHANGED <<readVars, flowVars, started, doneClosed, events, eventsClosed, wg, mu, keyState,
                   backendVars, loopVars, conPc, conRes, histVars>>

\* close(in.done); closing a closed channel panics
StopSignal(s) ==
    /\ stopPc[s] = "signal"
    /\ doneClosed' = TRUE
    /\ panicked' = (panicked \/ doneClosed)
    /\ stopPc' = [stopPc EXCEPT ![s] = "wait"]
    /\ UNCHANGED <<readVars, flowVars, started, stopping, stopOnce, events, eventsClosed, wg, mu, keyState,
                   backendVars, loopVars, conPc, conRes, startLog, stopCalls,
                   stopOnStarted, restoreCount, restoreFailed, produced>>

StopWait_NoJoin(s) ==
    /\ stopPc[s] = "wait"
    /\ stopPc' = [stopPc EXCEPT ![s] = "cleanup"]
    /\ UNCHANGED <<readVars, flowVars, implVars, backendVars, loopVars, conPc, conRes, histVars>>

\* in.wg.Wait() returns
StopWait(s) ==
    /\ stopPc[s] = "wait"
    /\ wg = 0
    /\ stopPc' = [stopPc EXCEPT ![s] = "cleanup"]
    /\ UNCHANGED <<readVars, flowVars, implVars, backendVars, loopVars, conPc, conRes, histVars>>

\* lock, backend.Restore(), started = false, close(in.events)
StopCleanup(s, ioOk) ==
    /\ stopPc[s] = "cleanup"
    /\ mu = "free"
    /\ (originalState = "nil") => ioOk
    /\ mu' = "stop"
    /\ BackendRestore(ioOk)
    /\ started' = FALSE
    /\ eventsClosed' = TRUE
    /\ panicked' = (panicked \/ eventsClosed)
    /\ stopPc' = [stopPc EXCEPT ![s] = "drain"]
    /\ UNCHANGED <<readVars, flowVars, stopping, stopOnce, doneClosed, events, wg, keyState, loopVars, conPc,
                   conRes, startLog, stopCalls, stopOnStarted, produced>>

\* for range in.events: one buffered event is received and dropped
StopDrain(s) ==
    /\ stopPc[s] = "drain"
    /\ events # <<>>
    /\ events' = Dequeue(events)
    /\ UNCHANGED <<readVars, flowVars, started, stopping, stopOnce, doneClosed, eventsClosed, wg, mu, keyState,
                   backendVars, loopVars, callerVars, histVars>>

\* the drain ends on the closed, empty channel; unlock; stopOnce.Do completes
StopFinish_KeepsLock(s) ==
    /\ stopPc[s] = "drain"
    /\ events = <<>>
    /\ stopOnce' = "done"
    /\ stopPc' = [stopPc EXCEPT ![s] = "returned"]
    /\ UNCHANGED <<readVars, flowVars, started, stopping, doneClosed, events, eventsClosed, wg, keyState,
                   backendVars, loopVars, conPc, conRes, histVars, mu>>

StopFinish(s) ==
    /\ stopPc[s] = "drain"
    /\ events = <<>>
    /\ mu' = "free"
    /\ stopOnce' = "done"
    /\ stopPc' = [stopPc EXCEPT ![s] = "returned"]
    /\ UNCHANGED <<readVars, flowVars, started, stopping, doneClosed, events, eventsClosed, wg, keyState,
                   backendVars, loopVars, conPc, conRes, histVars>>

\* ------------------------------------------------ Poll, Next, key state
\* inputImpl.updateKeyState: the map after the event
\* IsPressed(key): the tracked state, false for a key never seen
IsPressed(k) == keyState[k]

\* GameInput: the bindings of the one action of the model, and IsActionPressed on it
\* (true when any bound key is pressed)
bindings == Keys
IsActionPressed == \E key \in bindings : IsPressed(key)

updateKeyState(event) == [keyState EXCEPT ![event.key] = event.pressed]

\* a goroutine calls Poll() and reaches the select
PollCall(c) ==
    /\ conPc[c] \in {"idle", "ret"}
    /\ conPc' = [conPc EXCEPT ![c] = "poll"]
    /\ UNCHANGED <<readVars, flowVars, implVars, backendVars, loopVars, stopPc, conRes, histVars>>

\* Poll's select: a buffered event is received (ok is true, also on a closed channel)
PollRecv(c) ==
    /\ conPc[c] = "poll"
    /\ events # <<>>
    /\ events' = Dequeue(events)
    /\ conRes' = [conRes EXCEPT ![c] = [ev |-> Head(events), ok |-> TRUE]]
    /\ conPc' = [conPc EXCEPT ![c] = "pollUpdate"]
    /\ delivered' = Append(delivered, Head(events).id)
    /\ UNCHANGED <<readVars, preStopReads, started, stopping, stopOnce, doneClosed, eventsClosed, wg, mu, keyState,
                   backendVars, loopVars, stopPc, histVars>>

\* Poll's select: the receive reports the channel closed and empty
PollClosed(c) ==
    /\ conPc[c] = "poll"
    /\ events = <<>> /\ eventsClosed
    /\ conRes' = [conRes EXCEPT ![c] = [ev |-> ZeroEvent, ok |-> FALSE]]
    /\ conPc' = [conPc EXCEPT ![c] = "ret"]
    /\ UNCHANGED <<readVars, flowVars, implVars, backendVars, loopVars, stopPc, histVars>>

\* Poll's select: <-in.done
PollDone(c) ==
    /\ conPc[c] = "poll"
    /\ doneClosed
    /\ conRes' = [conRes EXCEPT ![c] = [ev |-> ZeroEvent, ok |-> FALSE]]
    /\ conPc' = [conPc EXCEPT ![c] = "ret"]
    /\ UNCHANGED <<readVars, flowVars, implVars, backendVars, loopVars, stopPc, histVars>>

\* Poll and Next: in.updateKeyState(event) under in.mu, then return the event
ConsumerUpdate(c) ==
    /\ conPc[c] \in {"pollUpdate", "nextUpdate"}
    /\ mu = "free"
    /\ keyState' = updateKeyState(conRes[c].ev)
    /\ conPc' = [conPc EXCEPT ![c] = "ret"]
    /\ UNCHANGED <<readVars, flowVars, started, stopping, stopOnce, doneClosed, events, eventsClosed, wg, mu,
                   backendVars, loopVars, stopPc, conRes, histVars>>

\* Next's select: a receive that is ready (a closed, empty channel yields the zero Event)
NextRecv(c) ==
    /\ conPc[c] \in {"idle", "ret"}
    /\ events # <<>> \/ eventsClosed
    /\ events' = IF events # <<>> THEN Dequeue(events) ELSE events
    /\ conRes' = [conRes EXCEPT ![c] =
                     [ev |-> IF events # <<>> THEN Head(events) ELSE ZeroEvent, ok |-> TRUE]]
    /\ conPc' = [conPc EXCEPT ![c] = "nextUpdate"]
    /\ delivered' = IF events # <<>> THEN Append(delivered, Head(events).id) ELSE delivered
    /\ UNCHANGED <<readVars, preStopReads, started, stopping, stopOnce, doneClosed, eventsClosed, wg, mu, keyState,
                   backendVars, loopVars, stopPc, histVars>>

NextNil_NoDefault(c) == FALSE

\* Next's select: default, return nil
NextNil(c) ==
    /\ conPc[c] \in {"idle", "ret"}
    /\ events = <<>> /\ ~eventsClosed
    /\ conRes' = [conRes EXCEPT ![c] = [ev |-> NilEvent, ok |-> FALSE]]
    /\ conPc' = [conPc EXCEPT ![c] = "ret"]
    /\ UNCHANGED <<readVars, flowVars, implVars, backendVars, loopVars, stopPc, histVars>>

\* ------------------------------------------------------------- parser
\* the Key constants in the order of their const block (iota, KeyUnknown = 0)
KeyNames == <<
    "KeyUnknown", "KeyEscape", "KeyEnter", "KeyBackspace", "KeyTab", "KeyDelete",
    "KeyInsert", "KeyUp", "KeyDown", "KeyLeft", "KeyRight", "KeyHome", "KeyEnd",
    "KeyPageUp", "KeyPageDown", "KeyF1", "KeyF2", "KeyF3", "KeyF4", "KeyF5", "KeyF6",
    "KeyF7", "KeyF8", "KeyF9", "KeyF10", "KeyF11", "KeyF12", "KeyA", "KeyB", "KeyC",
    "KeyD", "KeyE", "KeyF", "KeyG", "KeyH", "KeyI", "KeyJ", "KeyK", "KeyL", "KeyM", "KeyN",
    "KeyO", "KeyP", "KeyQ", "KeyR", "KeyS", "KeyT", "KeyU", "KeyV", "KeyW", "KeyX", "KeyY",
    "KeyZ", "Key0", "Key1", "Key2", "Key3", "Key4", "Key5", "Key6", "Key7", "Key8", "Key9",
    "KeyCtrlA", "KeyCtrlB", "KeyCtrlC", "KeyCtrlD", "KeyCtrlE", "KeyCtrlF", "KeyCtrlG",
    "KeyCtrlH", "KeyCtrlI", "KeyCtrlJ", "KeyCtrlK", "KeyCtrlL", "KeyCtrlM", "KeyCtrlN",
    "KeyCtrlO", "KeyCtrlP", "KeyCtrlQ", "KeyCtrlR", "KeyCtrlS", "KeyCtrlT", "KeyCtrlU",
    "KeyCtrlV", "KeyCtrlW", "KeyCtrlX", "KeyCtrlY", "KeyCtrlZ", "KeySpace"
>>
Key(name) == (CHOOSE i \in 1..Len(KeyNames) : KeyNames[i] = name) - 1

ModNone == 0
ModCtrl == 8
ESC == 27
RuneError == 65533
UTFMax == 4
maxEscapeLen == 16

\* what Parse returns: an Event with a nil error, or the zero Event with an error
ParsedEvent(k, r, m) == [err |-> "nil", key |-> k, rune |-> r, modifiers |-> m, pressed |-> TRUE]
ParseError(msg) ==
    [err |-> msg, key |-> KeyUnknown, rune |-> 0, modifiers |-> ModNone, pressed |-> FALSE]

\* unicode/utf8 as Parse and ReadEvent use it: the length a first byte announces (1 for
\* ASCII and for a byte that cannot start a character), the range it accepts for the
\* second byte, and the range of the later bytes
ValidLead(b0) == b0 < 128 \/ (194 <= b0 /\ b0 <= 244)
RuneSize(b0) ==
    IF b0 < 194 \/ b0 > 244 THEN 1 ELSE IF b0 < 224 THEN 2 ELSE IF b0 < 240 THEN 3 ELSE 4
AcceptLo(b0) == IF b0 = 224 THEN 160 ELSE IF b0 = 240 THEN 144 ELSE 128
AcceptHi(b0) == IF b0 = 237 THEN 159 ELSE IF b0 = 244 THEN 143 ELSE 191
Accepts(b0, b1) == AcceptLo(b0) <= b1 /\ b1 <= AcceptHi(b0)
Cont(b) == 128 <= b /\ b <= 191

\* utf8.FullRune: the bytes begin with a complete character, or with bytes that can
\* never become one
FullRune(p) ==
    IF Len(p) = 0 THEN FALSE
    ELSE IF Len(p) >= RuneSize(p[1]) THEN TRUE
    ELSE IF Len(p) > 1 /\ ~Accepts(p[1], p[2]) THEN TRUE
    ELSE IF Len(p) > 2 /\ ~Cont(p[3]) THEN TRUE
    ELSE FALSE

DecodeRune_FirstByte(p) == [r |-> p[1], size |-> 1]

\* utf8.DecodeRune: the first character and its width, (RuneError, 1) for bad bytes
DecodeRune(p) ==
    LET bad == [r |-> RuneError, size |-> 1] IN
    IF Len(p) < 1 THEN [r |-> RuneError, size |-> 0]
    ELSE IF p[1] < 128 THEN [r |-> p[1], size |-> 1]
    ELSE IF ~ValidLead(p[1]) THEN bad
    ELSE IF Len(p) < RuneSize(p[1]) THEN bad
    ELSE IF ~Accepts(p[1], p[2]) THEN bad
    ELSE IF RuneSize(p[1]) <= 2 THEN [r |-> (p[1] % 32) * 64 + (p[2] % 64), size |-> 2]
    ELSE IF ~Cont(p[3]) THEN bad
    ELSE IF RuneSize(p[1]) <= 3
         THEN [r |-> (p[1] % 16) * 4096 + (p[2] % 64) * 64 + (p[3] % 64), size |-> 3]
    ELSE IF ~Cont(p[4]) THEN bad
    ELSE [r |-> (p[1] % 8) * 262144 + (p[2] % 64) * 4096 + (p[3] % 64) * 64 + (p[4] % 64),
          size |-> 4]

ctrlCharToKey(b) ==
    IF b \in (1..26) \ {9, 13} THEN Key("KeyCtrlA") + (b - 1) ELSE KeyUnknown

runeToKey(r) ==
    IF 97 <= r /\ r <= 122 THEN Key("KeyA") + (r - 97)
    ELSE IF 65 <= r /\ r <= 90 THEN Key("KeyA") + (r - 65)
    ELSE IF 48 <= r /\ r <= 57 THEN Key("Key0") + (r - 48)
    ELSE IF r = 32 THEN Key("KeySpace")
    ELSE IF r = 9 THEN Key("KeyTab")
    ELSE IF r = 13 \/ r = 10 THEN Key("KeyEnter")
    ELSE KeyUnknown

\* buildTrie: the supported escape sequences; the trie has one node per prefix of a
\* sequence, and a node carries a key when a sequence ends there
addSequence(bytes, k, m) == [seq |-> bytes, key |-> k, modifier |-> m]
buildTrie == {
    addSequence(<<27, 91, 65>>, Key("KeyUp"), ModNone),
    addSequence(<<27, 91, 66>>, Key("KeyDown"), ModNone),
    addSequence(<<27, 91, 67>>, Key("KeyRight"), ModNone),
    addSequence(<<27, 91, 68>>, Key("KeyLeft"), ModNone),
    addSequence(<<27, 91, 72>>, Key("KeyHome"), ModNone),
    addSequence(<<27, 91, 70>>, Key("KeyEnd"), ModNone),
    addSequence(<<27, 91, 50, 126>>, Key("KeyInsert"), ModNone),
    addSequence(<<27, 91, 51, 126>>, Key("KeyDelete"), ModNone),
    addSequence(<<27, 91, 53, 126>>, Key("KeyPageUp"), ModNone),
    addSequence(<<27, 91, 54, 126>>, Key("KeyPageDown"), ModNone),
    addSequence(<<27, 79, 80>>, Key("KeyF1"), ModNone),
    addSequence(<<27, 79, 81>>, Key("KeyF2"), ModNone),
    addSequence(<<27, 79, 82>>, Key("KeyF3"), ModNone),
    addSequence(<<27, 79, 83>>, Key("KeyF4"), ModNone),
    addSequence(<<27, 91, 49, 53, 126>>, Key("KeyF5"), ModNone),
    addSequence(<<27, 91, 49, 55, 126>>, Key("KeyF6"), ModNone),
    addSequence(<<27, 91, 49, 56, 126>>, Key("KeyF7"), ModNone),
    addSequence(<<27, 91, 49, 57, 126>>, Key("KeyF8"), ModNone),
    addSequence(<<27, 91, 50, 48, 126>>, Key("KeyF9"), ModNone),
    addSequence(<<27, 91, 50, 49, 126>>, Key("KeyF10"), ModNone),
    addSequence(<<27, 91, 50, 51, 126>>, Key("KeyF11"), ModNone),
    addSequence(<<27, 91, 50, 52, 126>>, Key("KeyF12"), ModNone)
}
IsPrefix(p, q) == Len(p) <= Len(q) /\ SubSeq(q, 1, Len(p)) = p
HasNode(p) == \E e \in buildTrie : IsPrefix(p, e.seq)
NodeOf_NoLeaf(p) == addSequence(p, KeyUnknown, ModNone)

\* the node Parse stands on after walking p: the table entry, or a node without a key
NodeOf(p) ==
    IF \E e \in buildTrie : e.seq = p
    THEN CHOOSE e \in buildTrie : e.seq = p
    ELSE addSequence(p, KeyUnknown, ModNone)

\* SequenceParser.Parse, branch by branch in the order of the code
Parse(seq) ==
    IF Len(seq) = 0 THEN ParseError("empty sequence")
    ELSE IF Len(seq) = 1 /\ seq[1] < 128
    THEN LET b == seq[1] IN
         IF b = ESC THEN ParsedEvent(Key("KeyEscape"), 0, ModNone)
         ELSE IF 1 <= b /\ b <= 26 THEN ParsedEvent(ctrlCharToKey(b), 0, ModCtrl)
         ELSE IF b = 9 THEN ParsedEvent(Key("KeyTab"), 9, ModNone)
         ELSE IF b = 13 THEN ParsedEvent(Key("KeyEnter"), 13, ModNone)
         ELSE IF b = 127 \/ b = 8 THEN ParsedEvent(Key("KeyBackspace"), 0, ModNone)
         ELSE IF b = 32 THEN ParsedEvent(Key("KeySpace"), 32, ModNone)
         ELSE IF 32 <= b /\ b <= 126 THEN ParsedEvent(runeToKey(b), b, ModNone)
         ELSE ParsedEvent(KeyUnknown, 0, ModNone)
    ELSE IF seq[1] >= 128 /\ seq[1] # ESC
    THEN IF ~FullRune(seq) THEN ParseError("incomplete UTF-8 sequence")
         ELSE IF DecodeRune(seq).r = RuneError /\ DecodeRune(seq).size = 1
              THEN ParsedEvent(KeyUnknown, RuneError, ModNone)
              ELSE ParsedEvent(KeyUnknown, DecodeRune(seq).r, ModNone)
    ELSE IF \E i \in 1..Len(seq) : ~HasNode(SubSeq(seq, 1, i))
         THEN ParsedEvent(KeyUnknown, 0, ModNone)
         ELSE IF NodeOf(seq).key # KeyUnknown
              THEN ParsedEvent(NodeOf(seq).key, 0, NodeOf(seq).modifier)
              ELSE ParsedEvent(KeyUnknown, 0, ModNone)

\* ------------------------------------------------- backend.ReadEvent
\* The device is the sequence of what its reads will return: a chunk of bytes, or Gap
\* when it stays silent for longer than a read with a deadline waits.
Gap == <<>>
RECURSIVE DropGaps(_)
DropGaps(dev) == IF dev # <<>> /\ Head(dev) = Gap THEN DropGaps(Tail(dev)) ELSE dev

\* readWithTimeout: the bytes read, none on a timeout; and the device after it
TimedRead == IF device # <<>> THEN Head(device) ELSE Gap
AfterTimedRead == IF device # <<>> THEN Tail(device) ELSE device

\* the parser is applied to a buffer
ParseCall ==
    /\ rePc = "idle" /\ device = <<>> /\ readLog = <<>> /\ parsed = <<>>
    /\ parsed' = <<Parse(buffer)>>
    /\ UNCHANGED <<implVars, backendVars, loopVars, callerVars, histVars, flowVars,
                   device, pendingBuf, rePc, readLog, buffer, whole, backendCalls, buf>>

\* b.file.Read(buf): the chunk overwrites the head of the buffer; a read that times
\* out leaves the buffer as it was
ReadInto(chunk) ==
    IF chunk = Gap THEN buf
    ELSE [buf EXCEPT !.bytes = chunk \o SubSeq(@, Len(chunk) + 1, Len(@)),
                     !.n = Len(chunk)]

BackendRead_NoCopy ==
    /\ rePc = "idle"
    /\ DropGaps(device) # <<>>
    /\ buf' = [ReadInto(Head(DropGaps(device))) EXCEPT !.held = TRUE]
    /\ pendingBuf' = <<0>>
    /\ device' = Tail(DropGaps(device))
    /\ rePc' = "utf8"
    /\ UNCHANGED <<implVars, backendVars, loopVars, callerVars, histVars, flowVars,
                   readLog, buffer, parsed, whole, backendCalls>>

\* ReadEvent is called: it takes the buffer from the pool, and the blocking first read
\* returns the next chunk, which is copied to the accumulator
BackendRead ==
    /\ rePc = "idle"
    /\ DropGaps(device) # <<>>
    /\ buf' = [ReadInto(Head(DropGaps(device))) EXCEPT !.held = TRUE]
    /\ pendingBuf' = pendingBuf \o Head(DropGaps(device))
    /\ device' = Tail(DropGaps(device))
    /\ rePc' = "utf8"
    /\ UNCHANGED <<implVars, backendVars, loopVars, callerVars, histVars, flowVars,
                   readLog, buffer, parsed, whole, backendCalls>>

\* an incomplete UTF-8 character shorter than UTFMax: one more read, with a deadline
BackendReadUTF8 ==
    /\ rePc = "utf8"
    /\ IF pendingBuf[1] >= 128 /\ pendingBuf[1] # ESC
          /\ ~FullRune(pendingBuf) /\ Len(pendingBuf) < UTFMax
       THEN /\ pendingBuf' = pendingBuf \o TimedRead
            /\ device' = AfterTimedRead
            /\ buf' = ReadInto(TimedRead)
       ELSE UNCHANGED <<pendingBuf, device, buf>>
    /\ rePc' = "esc"
    /\ UNCHANGED <<implVars, backendVars, loopVars, callerVars, histVars, flowVars,
                   readLog, buffer, parsed, whole, backendCalls>>

\* an escape sequence: reads with a deadline until one times out or maxEscapeLen bytes
\* are held
BackendReadEscape ==
    /\ rePc = "esc"
    /\ IF pendingBuf[1] = ESC /\ Len(pendingBuf) < maxEscapeLen
       THEN /\ pendingBuf' = pendingBuf \o TimedRead
            /\ device' = AfterTimedRead
            /\ buf' = ReadInto(TimedRead)
            /\ rePc' = IF TimedRead = Gap THEN "parse" ELSE "esc"
       ELSE rePc' = "parse" /\ UNCHANGED <<pendingBuf, device, buf>>
    /\ UNCHANGED <<implVars, backendVars, loopVars, callerVars, histVars, flowVars,
                   readLog, buffer, parsed, whole, backendCalls>>

\* Parse, one more read and a second Parse on an incomplete UTF-8 character, then the
\* accumulator is cleared, ReadEvent returns and the buffer goes back to the pool
BackendParse ==
    /\ rePc = "parse"
    /\ LET retry == /\ Parse(pendingBuf).err = "incomplete UTF-8 sequence"
                    /\ Len(pendingBuf) < UTFMax
       IN  /\ readLog' = Append(readLog,
                  IF retry /\ TimedRead # Gap
                  THEN Parse(pendingBuf \o TimedRead) ELSE Parse(pendingBuf))
           /\ device' = IF retry THEN AfterTimedRead ELSE device
           /\ buf' = [(IF retry THEN ReadInto(TimedRead) ELSE buf) EXCEPT !.held = FALSE]
    /\ pendingBuf' = <<>>
    /\ rePc' = "idle"
    /\ UNCHANGED <<implVars, backendVars, loopVars, callerVars, histVars, flowVars,
                   buffer, parsed, whole, backendCalls>>

\* another ReadEvent call (of a second backend or captureLoop) takes the buffer from the
\* pool, reads into it and puts it back: Get hands out only a buffer that is in the pool
PoolReuse ==
    /\ ~buf.held
    /\ buf' = ReadInto(<<255, 255>>)
    /\ buf' # buf
    /\ UNCHANGED <<implVars, backendVars, loopVars, callerVars, histVars, flowVars,
                   device, pendingBuf, rePc, readLog, buffer, parsed, whole, backendCalls>>

\* ------------------------------------------------------ specifications
\* steps the Go scheduler takes once they are possible
LoopStep(l) ==
    \/ LoopCheck(l) \/ LoopBackoffTimer(l) \/ LoopBackoffDone(l)
    \/ LoopPushSend(l) \/ LoopPushDone(l)
StopStep(s) ==
    \/ StopOnceSpent(s) \/ StopBegin(s) \/ StopSignal(s) \/ StopWait(s)
    \/ (\E ioOk \in BOOLEAN : StopCleanup(s, ioOk)) \/ StopDrain(s) \/ StopFinish(s)
ConsumerStep(c) == PollRecv(c) \/ PollClosed(c) \/ PollDone(c) \/ ConsumerUpdate(c)

\* Next: the whole life cycle (Start and Stop called repeatedly and concurrently)
\* with the application's game loop as the one consumer
Next ==
    \/ \E io \in InitOutcomes : Start(io)
    \/ \E l \in Loops : LoopCheck(l)
    \/ \E l \in Loops, k \in Keys : ReadEventOk(l, k)
    \/ \E l \in Loops : ReadEventEOF(l)
    \/ \E l \in Loops : ReadEventErr(l)
    \/ \E l \in Loops : LoopBackoffTimer(l)
    \/ \E l \in Loops : LoopBackoffDone(l)
    \/ \E l \in Loops : LoopPushSend(l)
    \/ \E l \in Loops : LoopPushDone(l)
    \/ \E s \in Stoppers : StopCall(s)
    \/ \E s \in Stoppers : StopOnceSpent(s)
    \/ \E s \in Stoppers : StopBegin(s)
    \/ \E s \in Stoppers : StopSignal(s)
    \/ \E s \in Stoppers : StopWait(s)
    \/ \E s \in Stoppers, ioOk \in BOOLEAN : StopCleanup(s, ioOk)
    \/ \E s \in Stoppers : StopDrain(s)
    \/ \E s \in Stoppers : StopFinish(s)
    \/ \E c \in GameLoop : PollCall(c)
    \/ \E c \in GameLoop : PollRecv(c)
    \/ \E c \in GameLoop : PollClosed(c)
    \/ \E c \in GameLoop : PollDone(c)
    \/ \E c \in GameLoop : ConsumerUpdate(c)
    \/ \E c \in GameLoop : NextRecv(c)
    \/ \E c \in GameLoop : NextNil(c)

Spec == Init /\ [][Next]_vars

\* The calls (Start, Stop, Poll, Next) and the device (what ReadEvent returns, and
\* when) are the environment's; every other step is a goroutine's next instruction or
\* a runtime timer, which happens once it stays possible.
FairSpec ==
    /\ Spec
    /\ \A l \in Loops : WF_vars(LoopStep(l))
    /\ \A s \in Stoppers : WF_vars(StopStep(s))
    /\ \A c \in Consumers : WF_vars(ConsumerStep(c))

\* FlowNext: one session (one Start, Stop called by the owner) with every consumer
\* goroutine calling Poll() and Next() concurrently
FlowNext ==
    \/ \E io \in InitOutcomes : startLog = <<>> /\ Start(io)
    \/ \E l \in Loops : LoopCheck(l)
    \/ \E l \in Loops, k \in Keys : ReadEventOk(l, k)
    \/ \E l \in Loops : ReadEventEOF(l)
    \/ \E l \in Loops : ReadEventErr(l)
    \/ \E l \in Loops : LoopBackoffTimer(l)
    \/ \E l \in Loops : LoopBackoffDone(l)
    \/ \E l \in Loops : LoopPushSend(l)
    \/ \E l \in Loops : LoopPushDone(l)
    \/ \E s \in Owner : StopCall(s)
    \/ \E s \in Owner : StopOnceSpent(s)
    \/ \E s \in Owner : StopBegin(s)
    \/ \E s \in Owner : StopSignal(s)
    \/ \E s \in Owner : StopWait(s)
    \/ \E s \in Owner, ioOk \in BOOLEAN : StopCleanup(s, ioOk)
    \/ \E s \in Owner : StopDrain(s)
    \/ \E s \in Owner : StopFinish(s)
    \/ \E c \in Consumers : PollCall(c)
    \/ \E c \in Consumers : PollRecv(c)
    \/ \E c \in Consumers : PollClosed(c)
    \/ \E c \in Consumers : PollDone(c)
    \/ \E c \in Consumers : ConsumerUpdate(c)
    \/ \E c \in Consumers : NextRecv(c)
    \/ \E c \in Consumers : NextNil(c)

FlowSpec == Init /\ [][FlowNext]_vars

\* ------------------------------------------------- inputs of the parser
\* utf8 encoding of a scalar value, as terminals send characters
EncodeRune(v) ==
    IF v < 128 THEN <<v>>
    ELSE IF v < 2048 THEN <<192 + (v \div 64), 128 + (v % 64)>>
    ELSE IF v < 65536
         THEN <<224 + (v \div 4096), 128 + ((v \div 64) % 64), 128 + (v % 64)>>
    ELSE <<240 + (v \div 262144), 128 + ((v \div 4096) % 64), 128 + ((v \div 64) % 64),
           128 + (v % 64)>>

\* scalar values of 2, 3 and 4 bytes: the ends of each length and of the surrogate gap,
\* and the characters of the tests
SampleRunes ==
    {128, 233, 2047, 2048, 8364, 26085, 55295, 57344, 65533, 65535, 65536, 128512, 1114111}

ValidSequences == {e.seq : e \in buildTrie} \cup {EncodeRune(v) : v \in SampleRunes}

\* escape-shaped buffers that are no supported sequence, broken and incomplete UTF-8,
\* and several keys in one buffer
UnknownEscapes ==
    {<<27, 91>>, <<27, 79>>, <<27, 27>>, <<27, 88>>, <<27, 91, 90, 90>>, <<27, 91, 49>>,
     <<27, 91, 57, 57, 57, 126>>, <<27, 91, 65, 66>>, <<27, 91, 50, 126, 97>>}
BrokenUTF8 ==
    {<<195>>, <<230, 151>>, <<240, 159>>, <<240, 159, 152>>, <<195, 40>>, <<224, 128, 128>>,
     <<237, 160, 128>>, <<192, 128>>, <<244, 144, 128, 128>>, <<230, 40>>, <<240, 159, 40>>}
ParseInputs ==
    {<<>>} \cup {<<b>> : b \in 0..255} \cup ValidSequences \cup UnknownEscapes
    \cup BrokenUTF8 \cup {<<97, 98>>, <<195, 169, 97>>}

\* the ways the device can deliver a sequence: in one read, in two reads one right
\* after the other, and in two reads with a silence between them
Feeds(S) ==
    {<<S>>}
    \cup {<<SubSeq(S, 1, i), SubSeq(S, i + 1, Len(S))>> : i \in 1..(Len(S) - 1)}
    \cup {<<SubSeq(S, 1, i), Gap, Gap, SubSeq(S, i + 1, Len(S))>> : i \in 1..(Len(S) - 1)}

\* a parser is given one buffer, or a backend one stream of device reads
ParserInit ==
    /\ New
    /\ pendingBuf = <<>> /\ rePc = "idle" /\ readLog = <<>> /\ parsed = <<>>
    /\ backendCalls = <<>> /\ buf = PoolNew
    /\ \/ buffer \in ParseInputs /\ device = <<>> /\ whole = <<>>
       \/ buffer = <<>> /\ whole \in ValidSequences /\ device \in Feeds(whole)
       \/ buffer = <<>> /\ whole = <<>>
          /\ \E S \in UnknownEscapes \cup BrokenUTF8 \cup {<<b>> : b \in 0..255} :
                 device \in Feeds(S)

ParserNext ==
    \/ ParseCall
    \/ BackendRead
    \/ BackendReadUTF8
    \/ BackendReadEscape
    \/ BackendParse

ParserSpec == ParserInit /\ [][ParserNext]_vars

\* ------------------------------------------------- streams of the device
\* keystrokes a terminal sends: a letter, another letter, the Up arrow, the euro sign
BurstKeys == {<<97>>, <<98>>, <<27, 91, 65>>, <<226, 130, 172>>}

\* a paste: more bytes in one read than the longest escape sequence and its margin
PasteLen == 20
Paste == [i \in 1..PasteLen |-> 97]

RECURSIVE Flatten(_)
Flatten(dev) == IF dev = <<>> THEN <<>> ELSE Head(dev) \o Flatten(Tail(dev))

\* what a terminal delivers: two keystrokes in one read (fast typing, a key right after
\* an escape sequence), a sequence one byte per read, a chunk longer than maxEscapeLen
\* alone or behind the first byte of an escape sequence, and a keystroke after a silence
PasteStreams == {<<S \o T>> : S, T \in BurstKeys}
ByteStreams == {[i \in 1..Len(S) |-> <<S[i]>>] : S \in ValidSequences}
LongStreams == {<<Paste>>, <<<<ESC>>, Paste>>, <<<<ESC, 91>>, SubSeq(Paste, 1, maxEscapeLen - 1)>>}
IdleStreams == {<<Gap, S>> : S \in BurstKeys}
Streams == PasteStreams \cup ByteStreams \cup LongStreams \cup IdleStreams

\* a backend in front of one of the streams
StreamInit ==
    /\ New
    /\ pendingBuf = <<>> /\ rePc = "idle" /\ readLog = <<>> /\ parsed = <<>>
    /\ backendCalls = <<>> /\ buffer = <<>> /\ buf = PoolNew
    /\ device \in Streams
    /\ whole = Flatten(device)

\* backend_unix_darwin.go: ReadEvent called over and over
StreamNext ==
    \/ BackendRead
    \/ BackendReadUTF8
    \/ BackendReadEscape
    \/ BackendParse

StreamSpec == StreamInit /\ [][StreamNext]_vars

\* the same, with the pool's buffer taken by other calls between the ReadEvent calls
PoolNext ==
    \/ StreamNext
    \/ PoolReuse

PoolSpec == StreamInit /\ [][PoolNext]_vars

\* The backend built for every system but Windows reads with VMIN = 0 and VTIME = 1, so
\* each read, the first one of ReadEvent included, returns after 100ms without a byte.
\* Its first read returns a chunk
VtimeRead ==
    /\ device # <<>> /\ Head(device) # Gap
    /\ BackendRead

\* its first read returns no byte: ReadEvent returns io.EOF
VtimeIdle ==
    /\ rePc = "idle"
    /\ device # <<>> /\ Head(device) = Gap
    /\ device' = Tail(device)
    /\ readLog' = Append(readLog, ParseError("EOF"))
    /\ UNCHANGED <<implVars, backendVars, loopVars, callerVars, histVars, flowVars,
                   pendingBuf, rePc, buffer, parsed, whole, backendCalls, buf>>

VtimeNext ==
    \/ VtimeRead
    \/ VtimeIdle
    \/ BackendReadUTF8
    \/ BackendReadEscape
    \/ BackendParse

VtimeSpec == StreamInit /\ [][VtimeNext]_vars

\* a backend driven directly: Init() and Restore() in any order, with any ioctl outcome
BackendNext ==
    \/ \E io \in InitOutcomes : BackendCallInit(io)
    \/ \E ioOk \in BOOLEAN : BackendCallRestore(ioOk)

BackendSpec == Init /\ [][BackendNext]_vars

\* backend.ReadEvent returns, whatever it returns
ReadEventReturns(l) ==
    \/ \E k \in Keys : ReadEventOk(l, k)
    \/ ReadEventEOF(l)
    \/ ReadEventErr(l)

\* ------------------------------------------------------------- claims
LastStart == startLog[Len(startLog)]
StartReturns == Len(startLog') = Len(startLog) + 1
StopReturns(s) == stopPc[s] # "returned" /\ stopPc'[s] = "returned"
\* some Stop() call in progress or returned was made while the Input was started
StopCalledOnStarted == \E s \in Stoppers : stopPc[s] # "idle" /\ stopOnStarted[s]
\* captureLoop is at the send with the queue full
BlockedOnPush(l) == loopPc[l] = "push" /\ Len(events) = QueueCap

\* C1: once a Stop() call made on a started Input has returned, Restore() has been
\* invoked exactly once, however many Stop() calls there were; and nothing panicked.
C1_StopRestoresExactlyOnce ==
    /\ ~panicked
    /\ restoreCount <= 1
    /\ \A s \in Stoppers : (stopPc[s] = "returned" /\ stopOnStarted[s]) => restoreCount = 1

\* C2: after Stop() has been called on a started Input, a Poll() that is waiting
\* returns; none hangs.
C2_PollReturnsAfterStop ==
    \A c \in Consumers : [](StopCalledOnStarted /\ conPc[c] = "poll" => <>(conPc[c] = "ret"))

\* C3: whenever any Stop() call returns (and the restoring ioctl did not fail), the
\* terminal is in its original mode and no capture goroutine is running.
C3_StopPostconditions ==
    [][\A s \in Stoppers : StopReturns(s) /\ ~restoreFailed'
            => termMode' = "orig" /\ AliveLoops' = {}]_vars

\* C4: when a Stop() call made on a started Input returns, captureLoop has exited.
C4_StopJoinsCaptureLoop ==
    [][\A s \in Stoppers : StopReturns(s) /\ stopOnStarted[s] => AliveLoops' = {}]_vars

\* C5: every Stop() call eventually returns.
C5_StopAlwaysCompletes ==
    \A s \in Stoppers : [](stopPc[s] = "once" => <>(stopPc[s] = "returned"))

\* C6: once Stop() is called on a started Input, a captureLoop that is blocked at the
\* send on a full queue leaves the send, whether or not a consumer makes space.
C6_StopUnblocksPush ==
    \A l \in Loops : [](StopCalledOnStarted /\ BlockedOnPush(l) => <>(~BlockedOnPush(l)))

\* C7: after one Start() has returned nil, every later Start() returns the
\* already-started error, leaves the backend alone and spawns no goroutine.
C7_StartOnlyOnce ==
    [][StartsOK >= 1 /\ StartReturns
            => LastStart' = "already" /\ UNCHANGED <<backendVars, loopPc, wg>>]_vars

\* C8: when Start() returns nil the terminal is in raw mode, a capture goroutine is
\* alive, and the channels that carry its events and the shutdown signal are open.
C8_StartMeansRunning ==
    [][StartReturns /\ LastStart' = "ok"
            => termMode' = "raw" /\ AliveLoops' # {} /\ ~doneClosed' /\ ~eventsClosed']_vars

\* C9: a captureLoop is spawned, and ReadEvent entered, only after Init() has returned
\* nil; a Start() whose Init() fails spawns nothing and leaves the Input not started.
C9_InitBeforeSpawn ==
    [][/\ \A l \in Loops : loopPc'[l] = "read" => initialized' /\ StartsOK' >= 1
       /\ \A l \in Loops : loopPc[l] = "none" /\ loopPc'[l] # "none"
            => initialized' /\ LastStart' = "ok"
       /\ StartReturns /\ LastStart' = "initerr"
            => ~started' /\ UNCHANGED <<loopPc, wg, termMode, initialized>>]_vars

\* a Start() failed in Init(), a later one succeeded, and its captureLoop is in ReadEvent
C9_Witness ==
    /\ Len(startLog) = 2 /\ startLog[1] = "initerr" /\ startLog[2] = "ok"
    /\ \E l \in Loops : loopPc[l] = "read"

C11_NextNeverSuspends ==
    \A c \in GameLoop :
        /\ conPc[c] \in {"idle", "ret"} => ENABLED (NextRecv(c) \/ NextNil(c))
        /\ conPc[c] = "nextUpdate" =>
               \/ ENABLED ConsumerUpdate(c)
               \/ \E s \in Stoppers : ENABLED (StopDrain(s) \/ StopFinish(s))

\* Next() called while Stop() holds in.mu for its cleanup
C11_Witness == \E c \in GameLoop : conPc[c] = "nextUpdate" /\ mu = "stop"

\* C12: Next() returns nil whenever no event is available, in particular after Stop()
\* has returned: a Next() that hands out an Event received one that was queued.
C12_NextNilWhenNoEvent ==
    \A c \in GameLoop : conPc[c] = "nextUpdate" => conRes[c].ev # ZeroEvent

\* C13: each Event is delivered to at most one caller: with goroutines calling Poll()
\* and Next() concurrently, no Event is received twice and no two callers hold the
\* same Event.
C13_DeliveredOnce ==
    /\ \A i, j \in 1..Len(delivered) : delivered[i] = delivered[j] => i = j
    /\ \A c, d \in Consumers :
           c # d /\ conRes[c].ev.id >= 1 => conRes[c].ev.id # conRes[d].ev.id

\* one goroutine inside Poll() and another inside Next(), each with an Event in hand
C13_Witness ==
    \E c, d \in Consumers :
        /\ conPc[c] = "pollUpdate" /\ conPc[d] = "nextUpdate"
        /\ conRes[c].ev.id >= 1 /\ conRes[d].ev.id >= 1

\* C14: Events are delivered FIFO: the order in which Poll()/Next() receive Events is
\* the order in which ReadEvent produced them (ids count the reads): the Events
\* received so far are in read order, the queue holds its Events in read order, and
\* everything queued was read after everything received.
C14_FIFO ==
    /\ \A i, j \in 1..Len(delivered) : i < j => delivered[i] < delivered[j]
    /\ \A i, j \in 1..Len(events) : i < j => events[i].id < events[j].id
    /\ \A i \in 1..Len(delivered), j \in 1..Len(events) : delivered[i] < events[j].id

\* one Event received while two more wait in the queue
C14_Witness == Len(delivered) = 1 /\ Len(events) = 2

\* where an Event that ReadEvent returned can be: in captureLoop's hand on its way to
\* the queue, in the queue, or received by a Poll()/Next() call
InHand(id) == \E l \in Loops : loopPc[l] = "push" /\ loopEvent[l].id = id
Queued(id) == \E i \in 1..Len(events) : events[i].id = id
Received(id) == \E i \in 1..Len(delivered) : delivered[i] = id
Kept(id) == InHand(id) \/ Queued(id) \/ Received(id)

\* C15 (as stated): the queue applies backpressure rather than dropping, so every Event
\* ReadEvent returned before Stop() was called reaches some Poll()/Next() call: such an
\* Event is never lost on the way.
C15_ReadBeforeStopDelivered == \A id \in preStopReads : Kept(id)

\* C15 (amended): until shutdown is signalled nothing is dropped: the queue never
\* exceeds its capacity, captureLoop with an Event in hand and a full queue has no step
\* (it waits for a consumer), and every Event read so far is in hand, queued or
\* received.
C15_BackpressureUntilShutdown ==
    /\ Len(events) <= QueueCap
    /\ ~doneClosed =>
           /\ \A id \in 1..produced : Kept(id)
           /\ \A l \in Loops : BlockedOnPush(l) => ~ENABLED LoopStep(l)

\* captureLoop waiting on a full queue while the Input runs
C15_Witness == \E l \in Loops : BlockedOnPush(l) /\ ~doneClosed /\ started

\* captureLoop has ended itself: on io.EOF or on the last of maxConsecutiveErrors errors
SelfTerminated == \E l \in Loops : loopPc[l] \in {"exitEOF", "exitErr"}

\* C16: when the capture pipeline terminates itself without Stop() having been called,
\* every pending Poll() returns.
C16_PollReturnsAfterSelfTermination ==
    \A c \in GameLoop :
        [](SelfTerminated /\ stopCalls = 0 /\ conPc[c] = "poll" => <>(conPc[c] = "ret"))

\* C17: a read error ends captureLoop only as the last of maxConsecutiveErrors failures
\* in a row: the loop ends with an error only from ReadEvent and with the count just
\* reaching the limit, the count moves only by one failure at a time or back to zero,
\* every successful read sets it to zero, a failure below the limit sends the loop into
\* its back-off, and the next ReadEvent is entered only from the top of the loop, after
\* the back-off has elapsed.
C17_ErrorThreshold ==
    [][\A l \in Loops :
          /\ loopPc'[l] = "exitErr" /\ loopPc[l] # "exitErr" =>
                 /\ loopPc[l] = "read"
                 /\ consecutiveErrors[l] = maxConsecutiveErrors - 1
                 /\ consecutiveErrors'[l] = maxConsecutiveErrors
          /\ consecutiveErrors'[l] \in {consecutiveErrors[l], consecutiveErrors[l] + 1, 0}
          /\ loopPc[l] = "read" /\ loopPc'[l] = "push" => consecutiveErrors'[l] = 0
          /\ consecutiveErrors'[l] = consecutiveErrors[l] + 1 =>
                 /\ loopPc[l] = "read"
                 /\ consecutiveErrors'[l] < maxConsecutiveErrors => loopPc'[l] = "backoff"
          /\ loopPc[l] = "backoff" => loopPc'[l] \in {"backoff", "check", "exitDone"}
          /\ loopPc'[l] = "read" /\ loopPc[l] # "read" => loopPc[l] = "check"
      ]_vars

\* captureLoop ended by errors although a read succeeded earlier
C17_Witness == \E l \in Loops : loopPc[l] = "exitErr" /\ loopEvent[l].id >= 1

\* C18: the key state is updated before an Event becomes visible: from the moment an
\* Event for key K can be obtained from the queue, IsPressed(K) reflects it.
C18_StateBeforeVisible ==
    \A i \in 1..Len(events) : IsPressed(events[i].key) = events[i].pressed

\* C19: the capture pipeline is the sole writer of the key state: it changes only in a
\* step in which captureLoop takes a freshly read Event; no step of a goroutine inside
\* Poll() or Next() changes it.
C19_CaptureLoopSoleWriter ==
    [][keyState' # keyState => \E l \in Loops : loopPc[l] = "read" /\ loopPc'[l] = "push"]_vars

\* the backend has read a press of a key bound to the action, on a started Input
BoundPressRead ==
    /\ started
    /\ \E l \in Loops :
           loopPc[l] = "push" /\ loopEvent[l].key \in bindings /\ loopEvent[l].pressed

\* C20: on a started GameInput whose action is bound to key K, once the backend has
\* read a press of K, IsActionPressed eventually returns true even though the
\* application never calls Poll() or Next(): either some goroutine does call one of
\* them or Stop(), or every such press leads to IsActionPressed being true.
C20_ActionPressedWithoutPolling ==
    \/ <>(\E c \in Consumers : conPc[c] # "idle")
    \/ <>(stopCalls > 0)
    \/ [](BoundPressRead => <>IsActionPressed)

\* C21: the key-state set is empty immediately after every successful Start(), a
\* restart included: when Start() returns nil, IsPressed(K) is false for every K.
C21_KeyStateEmptyAfterStart ==
    [][StartReturns /\ startLog'[Len(startLog')] = "ok" =>
           \A k \in DOMAIN keyState : ~keyState'[k]]_vars

\* C22: unrecognised sequences and invalid or incomplete bytes are never an error: for
\* every byte stream the device delivers, every ReadEvent call returns an Event and a
\* nil error.
C22_MalformedNeverError == \A i \in 1..Len(readLog) : readLog[i].err = "nil"

\* the backend has returned from ReadEvent and the device has nothing more to deliver
StreamConsumed == rePc = "idle" /\ DropGaps(device) = <<>> /\ readLog # <<>>

\* C23: round trip: however a valid sequence (a supported escape sequence or a 2/3/4-byte
\* UTF-8 character) is split over the device's reads and ReadEvent calls, the backend
\* returns the one Event that a call receiving the whole sequence returns.
C23_SplitRoundTrip == StreamConsumed /\ whole # <<>> => readLog = <<Parse(whole)>>

\* C24: for every supported escape sequence S bound to (K, M) in the trie table,
\* Parse(S) returns an Event with Key K and Modifiers M and no error (and K is a key
\* of its own, not KeyUnknown).
C24_SupportedSequences ==
    \A e \in buildTrie :
        parsed # <<>> /\ buffer = e.seq =>
            /\ parsed[1].err = "nil"
            /\ parsed[1].key = e.key /\ e.key # KeyUnknown
            /\ parsed[1].modifiers = e.modifier

\* Parse has been applied to ESC [ 2 4 ~ (F12), the longest kind of supported sequence
C24_Witness == parsed # <<>> /\ buffer = <<27, 91, 50, 52, 126>>

C26_SingleByteKeys ==
    parsed # <<>> /\ Len(buffer) = 1 =>
        /\ buffer[1] = 9 => parsed[1].key = Key("KeyTab")
        /\ buffer[1] = 13 => parsed[1].key = Key("KeyEnter")
        /\ buffer[1] \in {127, 8} => parsed[1].key = Key("KeyBackspace")
        /\ buffer[1] = 32 => parsed[1].key = Key("KeySpace")
        /\ buffer[1] \in (1..26) \ {8, 9, 13} =>
               /\ parsed[1].key = Key("KeyCtrlA") + (buffer[1] - 1)
               /\ parsed[1].modifiers = ModCtrl

\* C27: for every valid 2-, 3- or 4-byte UTF-8 scalar value V, Parse of the encoding of
\* V returns an Event whose Rune is V and whose Key is KeyUnknown, with no error.
C27_UTF8Characters ==
    \A v \in SampleRunes :
        parsed # <<>> /\ buffer = EncodeRune(v) =>
            /\ parsed[1].err = "nil"
            /\ parsed[1].rune = v
            /\ parsed[1].key = KeyUnknown

\* Parse has been applied to F0 9F 98 80, the four bytes of U+1F600
C27_Witness ==
    parsed # <<>> /\ buffer = <<240, 159, 152, 128>> /\ buffer = EncodeRune(128512)

\* a call on the backend returns in this step; what it was and what it returned
BackendCallReturns == Len(backendCalls') = Len(backendCalls) + 1
ReturnedCall == backendCalls'[Len(backendCalls')]
InitOk == [op |-> "Init", ret |-> "ok"]
RestoreOk == [op |-> "Restore", ret |-> "ok"]

\* C28: double Init() equals single Init(): an Init() on an initialised backend returns
\* nil and changes neither the terminal mode nor the saved snapshot nor the backend,
\* and a Restore() that follows two successful Init() calls leaves the terminal in the
\* mode it had before the first of them.
C28_DoubleInit ==
    [][BackendCallReturns =>
          /\ initialized /\ ReturnedCall.op = "Init" =>
                 ReturnedCall.ret = "ok" /\ UNCHANGED backendVars
          /\ Len(backendCalls) >= 2 /\ ReturnedCall = RestoreOk
                /\ backendCalls[Len(backendCalls)] = InitOk
                /\ backendCalls[Len(backendCalls) - 1] = InitOk =>
                 termMode' = "orig"
      ]_vars

\* Init(); Init(); Restore() on a fresh backend, every ioctl succeeding
C28_Witness == backendCalls = <<InitOk, InitOk, RestoreOk>>

\* C29: if Init() fails, nothing is applied and nothing is retained: when Start()
\* returns the Init error, the terminal mode is unchanged, the backend is uninitialised
\* and holds no saved snapshot, and the Input is not started.
C29_InitFailureLeavesNothing ==
    [][StartReturns /\ startLog'[Len(startLog')] = "initerr" =>
          /\ termMode' = termMode
          /\ ~initialized' /\ originalState' = "nil"
          /\ ~started' /\ AliveLoops' = {}
      ]_vars

\* backend.Init() or backend.Restore() runs in this step (inside Start or Stop)
InitRuns == StartReturns /\ startLog'[Len(startLog')] # "already"
RestoreRuns == restoreCount' = restoreCount + 1

\* C30: single-reader discipline: backend operations never overlap. ReadEvent is run
\* only by captureLoop goroutines, of which at most one is inside it at a time, and
\* Init() and Restore() run only while no captureLoop is alive, so never during a
\* ReadEvent call, in any interleaving of Start() and Stop() calls.
C30_SingleReader ==
    [][/\ Cardinality({l \in Loops : loopPc'[l] = "read"}) <= 1
       /\ InitRuns \/ RestoreRuns => AliveLoops = {}
      ]_vars

\* Stop() is about to call Restore() after a captureLoop that has read events ended
C30_Witness ==
    /\ \E s \in Stoppers : stopPc[s] = "cleanup"
    /\ \E l \in Loops : loopPc[l] = "exitDone" /\ loopEvent[l].id >= 1

\* C31: captureLoop never sends on the events channel after Stop() has closed it, in
\* any interleaving of Start(), Stop(), Poll(), Next() and the loop, a Start() after a
\* completed Stop() included: no captureLoop holds an Event to send once the channel is
\* closed, and the send never panics.
C31_NoSendOnClosed ==
    /\ ~panicked
    /\ \A l \in Loops : eventsClosed => loopPc[l] \notin {"push", "panic"}

\* a captureLoop spawned by a Start() after a completed Stop() has run and ended
C31_Witness ==
    /\ eventsClosed /\ Spawned = 2
    /\ \A l \in Loops : loopPc[l] \in {"exitDone", "exitEOF", "exitErr"}
    /\ \E s \in Stoppers : stopPc[s] = "returned"

\* a goroutine has a next step of its own; a captureLoop inside ReadEvent counts, as
\* every ReadEvent call is assumed to return
StopRuns(s) == ENABLED StopStep(s)
LoopRuns(l) == ENABLED (LoopStep(l) \/ ReadEventReturns(l))

\* C32: no interleaving of Start(), Stop(), Poll(), Next() and IsPressed() with the
\* capture loop reaches a deadlock on in.mu, the stop-once guard or the wait group,
\* provided every ReadEvent() call returns: whatever a goroutine waits for has an owner
\* that can step. in.mu is held across steps only by a Stop() in its cleanup, which can
\* step; the wait group counts exactly the live captureLoops, and while a Stop() waits
\* for them each of them can step; the stop-once guard is held only by a Stop() that is
\* on its way, and that one can step or waits for the wait group or in.mu.
C32_NoDeadlock ==
    /\ mu = "stop" => \E t \in Stoppers : stopPc[t] = "drain" /\ StopRuns(t)
    /\ wg = Cardinality(AliveLoops)
    /\ (\E s \in Stoppers : stopPc[s] = "wait") => \A l \in AliveLoops : LoopRuns(l)
    /\ stopOnce = "running" =>
           \E t \in Stoppers :
               /\ stopPc[t] \in {"signal", "wait", "cleanup", "drain"}
               /\ StopRuns(t) \/ stopPc[t] = "wait" \/ (stopPc[t] = "cleanup" /\ mu = "stop")
    /\ \A s \in Stoppers :
           stopPc[s] = "once" => StopRuns(s) \/ stopOnce = "running" \/ mu = "stop"
    /\ \A c \in GameLoop :
           conPc[c] \in {"pollUpdate", "nextUpdate"} => ENABLED ConsumerUpdate(c) \/ mu = "stop"

\* one Stop() waits in stopOnce.Do for the other, which waits in wg.Wait() for a
\* captureLoop that is inside ReadEvent
C32_Witness ==
    /\ \E s, t \in Stoppers : stopPc[s] = "once" /\ stopPc[t] = "wait"
    /\ \E l \in Loops : loopPc[l] = "read"

\* C33: with several consumers, a consumer that received an earlier Event for a key
\* never writes keyState after the update for a later Event of that key was made, so
\* that IsPressed ends on the value of the last Event in production order
C33_NoStaleOverwrite ==
    [][\A c, d \in Consumers :
           (/\ ConsumerUpdate(c)
            /\ conRes[c].ev.key \in Keys
            /\ conPc[d] = "ret" /\ conRes[d].ok
            /\ conRes[d].ev.key = conRes[c].ev.key)
           => conRes[d].ev.id < conRes[c].ev.id]_vars

\* C34: while the device stays open the capture loop does not end because no key is
\* pressed: a read that returns no byte after the idle timeout is not reported as the
\* end of the stream (io.EOF, on which captureLoop returns), so that a key pressed after
\* the silence is still read.
C34_IdleReadNotEOF == \A i \in 1..Len(readLog) : readLog[i].err # "EOF"

\* C35: no keystroke is lost when the bytes of two keys arrive in one device read:
\* ReadEvent consumes one complete sequence per call, and the calls return the Event of
\* the first key and then the Event of the second.
C35_NoKeystrokeLost ==
    \A S, T \in BurstKeys :
        StreamConsumed /\ whole = S \o T => readLog = <<Parse(S), Parse(T)>>

\* C36: a valid 3- or 4-byte UTF-8 character whose bytes arrive one per device read is
\* returned by one ReadEvent call as one Event carrying the character.
C36_ByteWiseRune ==
    \A v \in SampleRunes :
        StreamConsumed /\ Len(EncodeRune(v)) >= 3 /\ whole = EncodeRune(v) =>
            readLog = <<ParsedEvent(KeyUnknown, v, ModNone)>>

\* the supported sequences that are a prefix of a buffer, and the longest of them
Matches(seq) == {e \in buildTrie : IsPrefix(e.seq, seq)}
LongestMatch(seq) ==
    CHOOSE e \in Matches(seq) : \A f \in Matches(seq) : Len(f.seq) <= Len(e.seq)

\* C37: escape-sequence recognition is longest-match: for a buffer that starts with ESC
\* and holds more, Parse returns the Key and Modifiers of the longest supported sequence
\* that is a prefix of the buffer, and Key Unknown only when none is.
C37_LongestMatch ==
    parsed # <<>> /\ Len(buffer) > 1 /\ buffer[1] = ESC =>
        IF Matches(buffer) = {}
        THEN parsed[1].key = KeyUnknown
        ELSE /\ parsed[1].key = LongestMatch(buffer).key
             /\ parsed[1].modifiers = LongestMatch(buffer).modifier

\* C38: the accumulator never holds more than maxEscapeLen (16) bytes, during or between
\* ReadEvent calls, whatever the size of the chunks the device returns.
C38_AccumulatorBounded == Len(pendingBuf) <= maxEscapeLen

====
